---------------------------- MODULE Spec2Model ----------------------------
(***************************************************************************)
(* A model of the statistics library: the combinatorics helpers            *)
(* (StatisticalTools.hpp), the Statistics<int> engine (Statistics.hpp) and *)
(* the three discrete distributions (models/*.hpp).                        *)
(*                                                                         *)
(* A C++ int is a 32-bit two's-complement integer; its arithmetic wraps.   *)
(* A C++ double is modelled as an extended rational <<n, d>> with d >= 0   *)
(* and gcd(n, d) = 1: d > 0 is the finite value n/d, <<1, 0>> is +inf,     *)
(* <<-1, 0>> is -inf and <<0, 0>> is NaN.  Rounding is not modelled.       *)
(***************************************************************************)
EXTENDS Integers, Sequences, FiniteSets, Bags, TLC

VARIABLES
    stats,      \* a Statistics<int> object: [values, populationData]
    twin,       \* a second Statistics<int> object, holding the opposite flag
    dist,       \* the DiscreteDistribution object in use, or NoObject
    ret         \* the last call: what was called, with what, and its outcome

vars == <<stats, twin, dist, ret>>

-----------------------------------------------------------------------------
(* Bounds of the model. *)

\* longest sample handed to the Statistics constructors and to setValues
MaxLen == 3
\* sample elements are drawn from MinValue .. MaxValue
MaxValue == 1
\* largest argument handed to factorial and combination
MaxArg == 14
\* largest numberOfTrials handed to Binomial in the Binomial specification
MaxTrials == 34
\* largest numberOfTrials and interval end handed to the distributions
MaxParam == 2
\* the samples whose doubles are rounded hold values from -MaxSpread to 1
MaxSpread == 2

MinValue == 0 - 1
MinParam == 0 - 2

\* the largest value of a C++ int (32 bits, two's complement)
IntMax == 2147483647
IntMin == (0 - IntMax) - 1
Limb == 256 * 256
Byte == 16 * 16

-----------------------------------------------------------------------------
(* 32-bit int arithmetic, on 16-bit limbs so that no intermediate value     *)
(* leaves the 32-bit range.                                                 *)

Hi16(a) == (a \div Limb) % Limb
Lo16(a) == a % Limb

\* the int whose bit pattern is hi * 2^16 + lo
FromLimbs(hi, lo) ==
    IF hi >= Limb \div 2 THEN (hi - Limb) * Limb + lo ELSE hi * Limb + lo

\* the low 16 bits of x * y, for 16-bit x and y
MulLo16(x, y) == (((x * (y \div Byte)) % Byte) * Byte + x * (y % Byte)) % Limb

\* bits 16..31 of x * y, for 16-bit x and y
MulHi16(x, y) ==
    LET p1 == x * (y \div Byte)
        p0 == x * (y % Byte)
    IN  ((p1 \div Byte) + (((p1 % Byte) * Byte + p0) \div Limb)) % Limb

\* a * b in int arithmetic (wraps modulo 2^32)
IntMul(a, b) ==
    LET ah == Hi16(a)
        al == Lo16(a)
        bh == Hi16(b)
        bl == Lo16(b)
    IN  FromLimbs((MulHi16(al, bl) + MulLo16(ah, bl) + MulLo16(al, bh)) % Limb,
                  MulLo16(al, bl))

\* a + b and a - b in int arithmetic (wrap modulo 2^32)
IntAdd(a, b) ==
    FromLimbs((Hi16(a) + Hi16(b) + ((Lo16(a) + Lo16(b)) \div Limb)) % Limb,
              (Lo16(a) + Lo16(b)) % Limb)
IntSub(a, b) ==
    FromLimbs((Hi16(a) - Hi16(b) - (IF Lo16(a) < Lo16(b) THEN 1 ELSE 0)) % Limb,
              (Lo16(a) - Lo16(b)) % Limb)

Abs(x) == IF x < 0 THEN 0 - x ELSE x
Sign(x) == IF x < 0 THEN 0 - 1 ELSE IF x > 0 THEN 1 ELSE 0

\* a / b for b > 0: the quotient truncated toward zero
TruncDiv(a, b) ==
    IF a < 0 /\ a % b # 0 THEN (a \div b) + 1 ELSE a \div b

\* a / b in int arithmetic, b # 0: the quotient truncated toward zero
\* (IntMin / -1 has no int quotient; it is given the wrapped value IntMin)
IntDiv(a, b) ==
    IF b > 0 THEN TruncDiv(a, b)
    ELSE IF b = IntMin THEN (IF a = IntMin THEN 1 ELSE 0)
    ELSE IF a = IntMin /\ b = 0 - 1 THEN IntMin
    ELSE 0 - TruncDiv(a, 0 - b)

-----------------------------------------------------------------------------
(* double arithmetic on extended rationals *)

RECURSIVE GCD(_, _)
GCD(a, b) == IF b = 0 THEN a ELSE GCD(b, a % b)

Norm(n, d) ==
    IF d = 0 THEN <<Sign(n), 0>>
    ELSE LET g == GCD(Abs(n), Abs(d))
         IN  <<Sign(d) * (n \div g), Abs(d) \div g>>

NaN == <<0, 0>>
Inf == <<1, 0>>
Zero == <<0, 1>>
One == <<1, 1>>
FromInt(i) == <<i, 1>>

IsNaN(a) == a = NaN
IsInfinite(a) == a[2] = 0 /\ a[1] # 0

DAdd(a, b) ==
    IF IsInfinite(a) /\ IsInfinite(b)
    THEN IF a = b THEN a ELSE NaN
    ELSE Norm(a[1] * b[2] + b[1] * a[2], a[2] * b[2])
DNeg(a) == <<0 - a[1], a[2]>>
DSub(a, b) == DAdd(a, DNeg(b))
DMul(a, b) == Norm(a[1] * b[1], a[2] * b[2])
DRecip(a) == IF a = Zero THEN Inf ELSE <<Sign(a[1]) * a[2], Abs(a[1])>>
DDiv(a, b) == DMul(a, DRecip(b))

\* a < b and a > b as C++ compares doubles: false when either is NaN
DLess(a, b) ==
    /\ ~IsNaN(a)
    /\ ~IsNaN(b)
    /\ IF IsInfinite(a) /\ IsInfinite(b)
       THEN a[1] < b[1]
       ELSE a[1] * b[2] < b[1] * a[2]
DGreater(a, b) == DLess(b, a)

\* std::pow(base, exponent) for an integer exponent
RECURSIVE pow(_, _)
pow(base, exponent) ==
    IF exponent = 0 THEN One
    ELSE IF exponent < 0 THEN DRecip(pow(base, 0 - exponent))
    ELSE LET rest == pow(base, exponent - 1)
         IN  IF IsNaN(rest) THEN NaN ELSE DMul(base, rest)

\* std::sqrt(x), kept exact: the real sgn * sqrt(sq) is written [sgn, sq]
SurdNaN == [sgn |-> 0, sq |-> NaN]
SurdZero == [sgn |-> 0, sq |-> Zero]
sqrt(x) ==
    IF IsNaN(x) \/ DLess(x, Zero) THEN SurdNaN
    ELSE [sgn |-> Sign(x[1]), sq |-> x]
\* s / m for such a real s and a double m
SurdDiv(s, m) ==
    LET sq == DDiv(s.sq, DMul(m, m))
    IN  IF IsNaN(sq) THEN SurdNaN ELSE [sgn |-> s.sgn * Sign(m[1]), sq |-> sq]

-----------------------------------------------------------------------------
(* StatisticalTools.hpp *)

NoError == "none"
InvalidArgument == "InvalidArgument"   \* std::runtime_error from a validation
EmptyData == "EmptyData"               \* std::runtime_error("Values are empty")
DivideByZero == "DivideByZero"         \* the int division trapped

Returns(v) == [error |-> NoError, value |-> v]
Throws(e) == [error |-> e, value |-> 0]

RECURSIVE factorial(_)

\* factorial without its guard on negative arguments
factorial_unguarded(x) ==
    IF x <= 1 THEN Returns(1)
    ELSE Returns(IntMul(x, factorial(x - 1).value))

\* int factorial(int x)
factorial(x) ==
    IF x < 0 THEN Throws(InvalidArgument)
    ELSE IF x <= 1 THEN Returns(1)
    ELSE LET rest == factorial(x - 1)
         IN  IF rest.error # NoError THEN rest
             ELSE Returns(IntMul(x, rest.value))

\* the number of activations of factorial that a call factorial(x) makes
RECURSIVE factorialCalls(_)
factorialCalls(x) ==
    IF x < 0 THEN 1
    ELSE IF x <= 1 THEN 1
    ELSE 1 + factorialCalls(x - 1)

\* combination dividing by factorial(n - x) alone
combination_partial(n, x) ==
    LET fn == factorial(n)
        fd == factorial(n - x)
        fx == factorial(x)
    IN  IF fn.error # NoError \/ fd.error # NoError \/ fx.error # NoError
        THEN {Throws(InvalidArgument)}
        ELSE IF fd.value = 0
             THEN {Throws(DivideByZero), Returns(0)}
             ELSE {Returns(IntDiv(fn.value, fd.value))}

\* int combination(int n, int x): the set of outcomes the call can have.
\* A zero denominator is a division by zero in int arithmetic: the division
\* traps, or (on a machine whose divide instruction does not trap) yields 0.
combination(n, x) ==
    LET fn == factorial(n)
        fd == factorial(n - x)
        fx == factorial(x)
    IN  IF fn.error # NoError \/ fd.error # NoError \/ fx.error # NoError
        THEN {Throws(InvalidArgument)}
        ELSE LET denominator == IntMul(fd.value, fx.value)
             IN  IF denominator = 0
                 THEN {Throws(DivideByZero), Returns(0)}
                 ELSE {Returns(IntDiv(fn.value, denominator))}

-----------------------------------------------------------------------------
(* The objects and the record of the last call *)

NoObject == [kind |-> "none"]
NoCall == [op |-> "none", args |-> <<>>, error |-> NoError]

EmptyStatistics(populationData) ==
    [values |-> <<>>, populationData |-> populationData]

-----------------------------------------------------------------------------
(* The program that calls factorial and combination once *)

\* the arguments handed to factorial and combination
Args == (0 - 2) .. MaxArg

\* a call of factorial(x), x being the first argument the program drew
Factorial ==
    /\ ret.op = "input"
    /\ LET x == ret.args[1]
           outcome == factorial(x)
       IN  ret' = [op |-> "factorial", args |-> <<x>>,
                   error |-> outcome.error, result |-> outcome.value,
                   calls |-> factorialCalls(x)]
    /\ UNCHANGED <<stats, twin, dist>>

\* a call of combination(n, x) on the two arguments the program drew
Combination ==
    /\ ret.op = "input"
    /\ \E outcome \in combination(ret.args[1], ret.args[2]) :
          ret' = [op |-> "combination", args |-> ret.args,
                  error |-> outcome.error, result |-> outcome.value]
    /\ UNCHANGED <<stats, twin, dist>>

InitTools ==
    /\ stats = EmptyStatistics(TRUE)
    /\ twin = EmptyStatistics(FALSE)
    /\ dist = NoObject
    /\ \E n \in Args, x \in Args :
          ret = [op |-> "input", args |-> <<n, x>>, error |-> NoError]

NextTools ==
    \/ Factorial
    \/ Combination

SpecTools == InitTools /\ [][NextTools]_vars

-----------------------------------------------------------------------------
(* Statistics.hpp, instantiated as Statistics<int> *)

\* void ensureNotEmpty() const: the error it throws, if any
ensureNotEmpty(self) ==
    IF self.values = <<>> THEN EmptyData ELSE NoError

\* an assign that appends to what is stored
assign_append(old, new) == old \o new

\* values.assign(...): the stored sample after it
assign(old, new) == new

\* int size() const
size(self) == Len(self.values)

\* the default argument of calculateSum: [](TYPE value) { return value; }
identity == [value \in Int |-> FromInt(value)]

\* the loop of calculateSum over the first i elements
RECURSIVE SumLoop(_, _, _)
SumLoop(values, function, i) ==
    IF i = 0 THEN Zero
    ELSE DAdd(SumLoop(values, function, i - 1), function[values[i]])

\* double calculateSum(std::function<double(TYPE)> function) const
calculateSum(self, function) == SumLoop(self.values, function, size(self))

\* mean without its special case for the empty sample
mean_unguarded(self) ==
    DDiv(calculateSum(self, identity), FromInt(size(self)))

\* double mean() const
mean(self) ==
    IF self.values = <<>> THEN Zero
    ELSE DDiv(calculateSum(self, identity), FromInt(size(self)))

\* std::sort(values.begin(), values.end()): insert the i-th element into the
\* sorted first i - 1
RECURSIVE Insert(_, _)
Insert(sorted, v) ==
    IF sorted = <<>> THEN <<v>>
    ELSE IF v < Head(sorted) THEN <<v>> \o sorted
    ELSE <<Head(sorted)>> \o Insert(Tail(sorted), v)

\* a sort that leaves the order as it is
sort_skipped(values) == values

RECURSIVE sort(_)
sort(values) ==
    IF values = <<>> THEN <<>>
    ELSE Insert(sort(SubSeq(values, 1, Len(values) - 1)), values[Len(values)])

\* double median(): its outcome and the object after it.  The C++ indices
\* mid - 1 and mid are the positions mid and mid + 1 of a TLA+ sequence.
median(self) ==
    IF ensureNotEmpty(self) # NoError
    THEN [error |-> EmptyData, value |-> Zero, self |-> self]
    ELSE LET sorted == sort(self.values)
             mid == Len(sorted) \div 2
         IN  [error |-> NoError,
              value |-> IF Len(sorted) % 2 = 0
                        THEN DDiv(FromInt(IntAdd(sorted[mid], sorted[mid + 1])),
                                  FromInt(2))
                        ELSE FromInt(sorted[mid + 1]),
              self |-> [self EXCEPT !.values = sorted]]

\* ++frequency[value] for every value
frequency(self) ==
    [value \in {self.values[i] : i \in 1 .. size(self)} |->
        Cardinality({i \in 1 .. size(self) : self.values[i] = value})]

\* TYPE mode() const: the outcomes it can have.  std::max_element returns the
\* first most frequent key in the iteration order of the std::unordered_map,
\* which the language leaves open: any most frequent value can come first.
mode(self) ==
    IF ensureNotEmpty(self) # NoError THEN {Throws(EmptyData)}
    ELSE {Returns(value) : value \in
            {v \in DOMAIN frequency(self) :
                \A w \in DOMAIN frequency(self) :
                    frequency(self)[w] <= frequency(self)[v]}}

\* std::minmax_element
minValue(self) ==
    CHOOSE v \in {self.values[i] : i \in 1 .. size(self)} :
        \A i \in 1 .. size(self) : v <= self.values[i]
maxValue(self) ==
    CHOOSE v \in {self.values[i] : i \in 1 .. size(self)} :
        \A i \in 1 .. size(self) : self.values[i] <= v

\* an amplitude that, for sample data, measures from the first element
amplitude_byFlag(self) ==
    IF ensureNotEmpty(self) # NoError THEN Throws(EmptyData)
    ELSE IF self.populationData
         THEN Returns(IntSub(maxValue(self), minValue(self)))
         ELSE Returns(IntSub(maxValue(self), self.values[1]))

\* an amplitude that takes the two ends of the stored sample for its least and
\* its greatest value
amplitude_ofEnds(self) ==
    IF ensureNotEmpty(self) # NoError THEN Throws(EmptyData)
    ELSE Returns(IntSub(self.values[size(self)], self.values[1]))

\* TYPE amplitude() const
amplitude(self) ==
    IF ensureNotEmpty(self) # NoError THEN Throws(EmptyData)
    ELSE Returns(IntSub(maxValue(self), minValue(self)))

\* a variance that returns 0 for sample data of a single value
variance_clamped(self) ==
    IF self.values = <<>> \/ (~self.populationData /\ size(self) = 1) THEN Zero
    ELSE LET meanOfValues == mean(self)
             sumOfValues ==
                 calculateSum(self,
                     [value \in Int |->
                         pow(DSub(FromInt(value), meanOfValues), 2)])
         IN  IF self.populationData
             THEN DDiv(sumOfValues, FromInt(size(self)))
             ELSE DDiv(sumOfValues, FromInt(size(self) - 1))

\* double variance() const
variance(self) ==
    IF self.values = <<>> THEN Zero
    ELSE LET meanOfValues == mean(self)
             sumOfValues ==
                 calculateSum(self,
                     [value \in Int |->
                         pow(DSub(FromInt(value), meanOfValues), 2)])
         IN  IF self.populationData
             THEN DDiv(sumOfValues, FromInt(size(self)))
             ELSE DDiv(sumOfValues, FromInt(size(self) - 1))

\* double standardDeviation() const
standardDeviation(self) == sqrt(variance(self))

\* double coefficientOfVariation() const
coefficientOfVariation(self) ==
    IF mean(self) = Zero THEN SurdZero
    ELSE SurdDiv(standardDeviation(self), mean(self))

-----------------------------------------------------------------------------
(* The arithmetic of double as the machine carries it out: IEEE 754 binary64, *)
(* every operation rounded to the nearest value of 53 significant bits, ties  *)
(* to even.  A natural number is the sequence of its digits in base 2^15,     *)
(* lowest first, without leading zeros; a finite double is sgn * man * 2^exp  *)
(* with man of exactly 53 bits, or man = <<>> for zero.  The exponent range   *)
(* is not modelled: the values of the samples stay far from its ends.         *)
(* Every operator first takes its arguments as values (x \in {a}), so that    *)
(* none is computed more than once.                                           *)

\* the significant bits of a double
DBL_MANT_DIG == 53

Digit == Limb \div 2

RECURSIVE Trim(_)
Trim(a) ==
    CHOOSE r \in
       {IF x = <<>> THEN <<>>
        ELSE IF x[Len(x)] = 0 THEN Trim(SubSeq(x, 1, Len(x) - 1))
        ELSE x : x \in {a}} : TRUE

Rest(a) == IF a = <<>> THEN <<>> ELSE Tail(a)
Low(a) == IF a = <<>> THEN 0 ELSE Head(a)

RECURSIVE NatAddCarry(_, _, _)
NatAddCarry(a, b, carry) ==
    CHOOSE r \in
       {IF x = <<>> /\ y = <<>> THEN (IF c = 0 THEN <<>> ELSE <<c>>)
        ELSE <<(Low(x) + Low(y) + c) % Digit>>
                \o NatAddCarry(Rest(x), Rest(y),
                               (Low(x) + Low(y) + c) \div Digit) :
          x \in {a}, y \in {b}, c \in {carry}} : TRUE

NatAdd(a, b) == NatAddCarry(a, b, 0)

\* a - b - borrow for a >= b + borrow, before the leading zeros are removed
RECURSIVE NatSubBorrow(_, _, _)
NatSubBorrow(a, b, borrow) ==
    CHOOSE r \in
       {IF x = <<>> THEN <<>>
        ELSE IF Low(x) - Low(y) - c < 0
             THEN <<Low(x) - Low(y) - c + Digit>>
                     \o NatSubBorrow(Rest(x), Rest(y), 1)
             ELSE <<Low(x) - Low(y) - c>> \o NatSubBorrow(Rest(x), Rest(y), 0) :
          x \in {a}, y \in {b}, c \in {borrow}} : TRUE

NatSub(a, b) == Trim(NatSubBorrow(a, b, 0))

RECURSIVE NatLess(_, _)
NatLess(a, b) ==
    \E x \in {a}, y \in {b} :
       IF Len(x) # Len(y) THEN Len(x) < Len(y)
       ELSE IF x = <<>> THEN FALSE
       ELSE IF x[Len(x)] # y[Len(x)] THEN x[Len(x)] < y[Len(x)]
       ELSE NatLess(SubSeq(x, 1, Len(x) - 1), SubSeq(y, 1, Len(x) - 1))

RECURSIVE NatMulDigit(_, _, _)
NatMulDigit(a, d, carry) ==
    CHOOSE r \in
       {IF x = <<>> THEN (IF c = 0 THEN <<>> ELSE <<c>>)
        ELSE <<(Head(x) * k + c) % Digit>>
                \o NatMulDigit(Tail(x), k, (Head(x) * k + c) \div Digit) :
          x \in {a}, k \in {d}, c \in {carry}} : TRUE

RECURSIVE NatMul(_, _)
NatMul(a, b) ==
    CHOOSE r \in
       {IF x = <<>> \/ y = <<>> THEN <<>>
        ELSE NatAdd(NatMulDigit(x, Head(y), 0), <<0>> \o NatMul(x, Tail(y))) :
          x \in {a}, y \in {b}} : TRUE

\* the quotient and the remainder of the digits 1 .. i of a, with a remainder
\* carried in from the digits above, by a divisor of one digit
RECURSIVE NatDivStep(_, _, _, _)
NatDivStep(a, i, k, rem) ==
    CHOOSE r \in
       {IF j = 0 THEN [q |-> <<>>, r |-> c]
        ELSE [q |-> below.q \o <<(c * Digit + x[j]) \div k>>, r |-> below.r] :
          x \in {a}, j \in {i}, c \in {rem},
          below \in {IF i = 0 THEN [q |-> <<>>, r |-> 0]
                     ELSE NatDivStep(a, i - 1, k, (rem * Digit + a[i]) % k)}} :
       TRUE

NatDivSmall(a, k) ==
    CHOOSE r \in
       {[q |-> Trim(d.q), r |-> d.r] :
          d \in {NatDivStep(a, Len(a), k, 0)}} : TRUE

\* a * 2^s
NatShl(a, s) ==
    CHOOSE r \in
       {IF x = <<>> THEN <<>>
        ELSE [i \in 1 .. n \div 15 |-> 0] \o NatMulDigit(x, 2 ^ (n % 15), 0) :
          x \in {a}, n \in {s}} : TRUE

\* a / 2^s rounded down, and whether a bit was lost
NatShr(a, s) ==
    CHOOSE r \in
       {[q |-> d.q, sticky |-> d.r # 0 \/ \E i \in 1 .. digits : x[i] # 0] :
          x \in {a},
          digits \in {IF s \div 15 < Len(a) THEN s \div 15 ELSE Len(a)},
          d \in {NatDivSmall(SubSeq(a, (IF s \div 15 < Len(a) THEN s \div 15
                                        ELSE Len(a)) + 1, Len(a)),
                             2 ^ (s % 15))}} : TRUE

RECURSIVE BitsOfDigit(_)
BitsOfDigit(d) == IF d = 0 THEN 0 ELSE 1 + BitsOfDigit(d \div 2)

\* the number of bits of a
NatBits(a) ==
    CHOOSE r \in
       {IF x = <<>> THEN 0 ELSE 15 * (Len(x) - 1) + BitsOfDigit(x[Len(x)]) :
          x \in {a}} : TRUE

RECURSIVE NatFromInt(_)
NatFromInt(n) ==
    IF n = 0 THEN <<>> ELSE <<n % Digit>> \o NatFromInt(n \div Digit)

FZero == [sgn |-> 1, man |-> <<>>, exp |-> 0]
FNaN == [sgn |-> 0, man |-> <<>>, exp |-> 0]
FInf(sgn) == [sgn |-> sgn, man |-> <<>>, exp |-> 1]

\* sgn * kept * 2^exp rounded up by one unit of kept, or not, and brought back
\* to 53 bits
FRoundUp(sgn, kept, exp, up) ==
    CHOOSE r \in
       {IF NatBits(man) > DBL_MANT_DIG
        THEN [sgn |-> sgn, man |-> NatDivSmall(man, 2).q, exp |-> exp + 1]
        ELSE [sgn |-> sgn, man |-> man, exp |-> exp] :
          man \in {IF up THEN NatAdd(kept, <<1>>) ELSE kept}} : TRUE

\* the double nearest to sgn * n * 2^exp, ties to even: part is n without the
\* bits below its guard bit
FRound(sgn, n, exp) ==
    CHOOSE r \in
       {IF bits = 0 THEN FZero
        ELSE IF bits <= DBL_MANT_DIG
        THEN [sgn |-> sgn, man |-> NatShl(x, DBL_MANT_DIG - bits),
              exp |-> exp - (DBL_MANT_DIG - bits)]
        ELSE FRoundUp(sgn, kept, exp + bits - DBL_MANT_DIG,
                      part.q[1] % 2 = 1 /\ (part.sticky \/ kept[1] % 2 = 1)) :
          x \in {n}, bits \in {NatBits(n)},
          part \in {IF NatBits(n) <= DBL_MANT_DIG
                    THEN [q |-> <<>>, sticky |-> FALSE]
                    ELSE NatShr(n, NatBits(n) - DBL_MANT_DIG - 1)},
          kept \in {IF NatBits(n) <= DBL_MANT_DIG THEN <<>>
                    ELSE NatDivSmall(NatShr(n, NatBits(n) - DBL_MANT_DIG - 1).q,
                                     2).q}} : TRUE

\* the conversion of an int to double
FFromInt(i) ==
    IF i < 0 THEN FRound(0 - 1, NatFromInt(0 - i), 0)
    ELSE FRound(1, NatFromInt(i), 0)

FNeg(a) == [a EXCEPT !.sgn = 0 - a.sgn]

\* the sum of sgnX * x * 2^exp and sgnY * y * 2^exp
FAddAligned(sgnX, x, sgnY, y, exp) ==
    IF sgnX = sgnY THEN FRound(sgnX, NatAdd(x, y), exp)
    ELSE IF x = y THEN FZero
    ELSE IF NatLess(x, y) THEN FRound(sgnY, NatSub(y, x), exp)
    ELSE FRound(sgnX, NatSub(x, y), exp)

\* double operator+ on finite operands
FAdd(a, b) ==
    CHOOSE r \in
       {IF u.man = <<>> THEN v
        ELSE IF v.man = <<>> THEN u
        ELSE FAddAligned(u.sgn, x, v.sgn, y,
                         IF u.exp < v.exp THEN u.exp ELSE v.exp) :
          u \in {a}, v \in {b},
          x \in {IF a.exp < b.exp THEN a.man
                 ELSE NatShl(a.man, a.exp - b.exp)},
          y \in {IF b.exp < a.exp THEN b.man
                 ELSE NatShl(b.man, b.exp - a.exp)}} : TRUE

\* double operator- on finite operands
FSub(a, b) == FAdd(a, FNeg(b))

\* double operator* on finite operands
FMul(a, b) ==
    CHOOSE r \in
       {FRound(u.sgn * v.sgn, NatMul(u.man, v.man), u.exp + v.exp) :
          u \in {a}, v \in {b}} : TRUE

\* double operator/ of a finite double by the double of an int k >= 0: the
\* quotient is carried to 2 * 53 bits and a last bit that tells whether a
\* remainder was left
FDivInt(a, k) ==
    CHOOSE r \in
       {IF k = 0 THEN (IF u.man = <<>> THEN FNaN ELSE FInf(u.sgn))
        ELSE FRound(u.sgn,
                    NatAdd(NatShl(d.q, 1), IF d.r = 0 THEN <<>> ELSE <<1>>),
                    u.exp - 2 * DBL_MANT_DIG - 1) :
          u \in {a},
          d \in {IF k = 0 THEN [q |-> <<>>, r |-> 0]
                 ELSE NatDivSmall(NatShl(a.man, 2 * DBL_MANT_DIG), k)}} : TRUE

-----------------------------------------------------------------------------
(* Statistics.hpp, instantiated as Statistics<int>, with its doubles rounded *)

\* the default argument of calculateSum
identityRounded == [value \in Int |-> FFromInt(value)]

RECURSIVE SumLoopRounded(_, _, _)
SumLoopRounded(values, function, i) ==
    IF i = 0 THEN FZero
    ELSE FAdd(SumLoopRounded(values, function, i - 1), function[values[i]])

\* double calculateSum(std::function<double(TYPE)> function) const
calculateSumRounded(self, function) ==
    SumLoopRounded(self.values, function, size(self))

\* double mean() const
meanRounded(self) ==
    IF self.values = <<>> THEN FZero
    ELSE FDivInt(calculateSumRounded(self, identityRounded), size(self))

\* double variance() const; std::pow(x, 2) returns the rounded x * x
varianceRounded(self) ==
    IF self.values = <<>> THEN FZero
    ELSE CHOOSE r \in
            {IF self.populationData
             THEN FDivInt(sumOfValues, size(self))
             ELSE FDivInt(sumOfValues, size(self) - 1) :
               sumOfValues \in
                  {calculateSumRounded(self,
                      [value \in Int |->
                          FMul(FSub(FFromInt(value), meanOfValues),
                               FSub(FFromInt(value), meanOfValues))]) :
                     meanOfValues \in {meanRounded(self)}}} : TRUE

-----------------------------------------------------------------------------
(* The program that drives a Statistics<int> object, and beside it a second  *)
(* object that is handed the same calls and holds the opposite flag          *)

Values == MinValue .. MaxValue
Samples == UNION {[1 .. n -> Values] : n \in 0 .. MaxLen}

\* the record of a call that leaves both objects as they are
Query(op, error, result, twinError, twinResult) ==
    /\ ret' = [op |-> op, args |-> <<>>, error |-> error, result |-> result,
               twinError |-> twinError, twinResult |-> twinResult,
               before |-> stats]
    /\ UNCHANGED <<stats, twin, dist>>

\* Statistics(bool populationData = true): the object it builds
Statistics(populationData) == EmptyStatistics(populationData)

\* Statistics(first, last, populationData) and Statistics(list, populationData):
\* the object they build
StatisticsOf(list, populationData) ==
    [EmptyStatistics(populationData) EXCEPT !.values = assign(@, list)]

\* setValues(first, last) and setValues(list)
SetValues(list) ==
    /\ stats' = [stats EXCEPT !.values = assign(@, list)]
    /\ twin' = [twin EXCEPT !.values = assign(@, list)]
    /\ ret' = [op |-> "setValues", args |-> <<list>>, error |-> NoError,
               before |-> [populationData |-> stats.populationData]]
    /\ UNCHANGED dist

\* setPopulationData(populationData); the second object is handed the opposite
SetPopulationData(populationData) ==
    /\ stats' = [stats EXCEPT !.populationData = populationData]
    /\ twin' = [twin EXCEPT !.populationData = ~populationData]
    /\ ret' = [op |-> "setPopulationData", args |-> <<populationData>>,
               error |-> NoError, before |-> stats]
    /\ UNCHANGED dist

GetValues ==
    Query("getValues", NoError, stats.values, NoError, twin.values)

IsPopulationData ==
    Query("isPopulationData", NoError, stats.populationData,
          NoError, twin.populationData)

Size == Query("size", NoError, size(stats), NoError, size(twin))

CalculateSum ==
    Query("calculateSum", NoError, calculateSum(stats, identity),
          NoError, calculateSum(twin, identity))

Mean == Query("mean", NoError, mean(stats), NoError, mean(twin))

Median ==
    /\ stats' = median(stats).self
    /\ twin' = median(twin).self
    /\ ret' = [op |-> "median", args |-> <<>>,
               error |-> median(stats).error, result |-> median(stats).value,
               twinError |-> median(twin).error,
               twinResult |-> median(twin).value,
               before |-> stats]
    /\ UNCHANGED dist

\* the two objects run the same library: on the same sequence of insertions
\* their frequency maps iterate in the same order
Mode ==
    \E outcome \in mode(stats), twinOutcome \in mode(twin) :
       /\ twin.values = stats.values => twinOutcome = outcome
       /\ Query("mode", outcome.error, outcome.value,
                twinOutcome.error, twinOutcome.value)

Amplitude ==
    Query("amplitude", amplitude(stats).error, amplitude(stats).value,
          amplitude(twin).error, amplitude(twin).value)

Variance == Query("variance", NoError, variance(stats), NoError, variance(twin))

StandardDeviation ==
    Query("standardDeviation", NoError, standardDeviation(stats),
          NoError, standardDeviation(twin))

CoefficientOfVariation ==
    Query("coefficientOfVariation", NoError, coefficientOfVariation(stats),
          NoError, coefficientOfVariation(twin))

\* the program has built its object with one of the constructors
InitStatistics ==
    /\ \E list \in Samples, populationData \in BOOLEAN :
          /\ stats \in {Statistics(populationData),
                        StatisticsOf(list, populationData)}
          /\ twin = [stats EXCEPT !.populationData = ~stats.populationData]
    /\ dist = NoObject
    /\ ret = NoCall

NextStatistics ==
    \/ \E list \in Samples : SetValues(list)
    \/ \E populationData \in BOOLEAN : SetPopulationData(populationData)
    \/ GetValues
    \/ IsPopulationData
    \/ Size
    \/ CalculateSum
    \/ Mean
    \/ Median
    \/ Mode
    \/ Amplitude
    \/ Variance
    \/ StandardDeviation
    \/ CoefficientOfVariation

SpecStatistics == InitStatistics /\ [][NextStatistics]_vars

-----------------------------------------------------------------------------
(* The program that drives a Statistics<int> object of up to three values,   *)
(* and beside it a second object, built from the same sample with the same   *)
(* flag, that is handed every call but median(): the second object keeps     *)
(* the order in which the sample was given.  The doubles are rounded.        *)

SpreadValues == (0 - MaxSpread) .. 1
SpreadSamples == UNION {[1 .. n -> SpreadValues] : n \in 1 .. 3}

\* median() on the first object alone; the second object tells what median()
\* returns on the sample as given
MedianAlone ==
    /\ stats' = median(stats).self
    /\ ret' = [op |-> "median", args |-> <<>>,
               error |-> median(stats).error, result |-> median(stats).value,
               twinError |-> median(twin).error,
               twinResult |-> median(twin).value,
               before |-> stats]
    /\ UNCHANGED <<twin, dist>>

CalculateSumRounded ==
    Query("calculateSum", NoError, calculateSumRounded(stats, identityRounded),
          NoError, calculateSumRounded(twin, identityRounded))

MeanRounded ==
    Query("mean", NoError, meanRounded(stats), NoError, meanRounded(twin))

VarianceRounded ==
    Query("variance", NoError, varianceRounded(stats),
          NoError, varianceRounded(twin))

InitMedian ==
    /\ \E list \in SpreadSamples, populationData \in BOOLEAN :
          /\ stats = StatisticsOf(list, populationData)
          /\ twin = StatisticsOf(list, populationData)
    /\ dist = NoObject
    /\ ret = NoCall

NextMedian ==
    \/ MedianAlone
    \/ Size
    \/ CalculateSumRounded
    \/ MeanRounded
    \/ Mode
    \/ Amplitude
    \/ VarianceRounded
    \/ StandardDeviation
    \/ CoefficientOfVariation

SpecMedian == InitMedian /\ [][NextMedian]_vars

-----------------------------------------------------------------------------
(* models/Binomial.hpp *)

\* void checkNumberOfTrials(): the error it throws, if any
checkNumberOfTrials(self) ==
    IF self.numberOfTrials < 0 THEN InvalidArgument ELSE NoError

\* void Binomial::checkProbabilityOfSuccess()
Binomial_checkProbabilityOfSuccess(self) ==
    IF \/ DLess(self.probabilityOfSuccess, Zero)
       \/ DGreater(self.probabilityOfSuccess, One)
    THEN InvalidArgument
    ELSE NoError

\* void checkDistribution()
checkDistribution(self) ==
    IF checkNumberOfTrials(self) # NoError THEN checkNumberOfTrials(self)
    ELSE Binomial_checkProbabilityOfSuccess(self)

\* Binomial(int numberOfTrials, double probabilityOfSuccess): the fields are
\* initialised, then checked
Binomial(numberOfTrials, probabilityOfSuccess) ==
    LET self == [kind |-> "Binomial", numberOfTrials |-> numberOfTrials,
                 probabilityOfSuccess |-> probabilityOfSuccess]
    IN  [error |-> checkDistribution(self), self |-> self]

\* getProbability without the upper end of its range check
Binomial_getProbability_open(self, numberOfSuccesses) ==
    IF numberOfSuccesses < 0
    THEN {[error |-> NoError, value |-> Zero, combinationArgs |-> <<>>]}
    ELSE {[error |-> combinations.error,
           value |-> IF combinations.error # NoError THEN Zero
                     ELSE FromInt(combinations.value),
           combinationArgs |-> <<<<self.numberOfTrials, numberOfSuccesses>>>>] :
            combinations \in combination(self.numberOfTrials, numberOfSuccesses)}

\* double getProbability(int numberOfSuccesses) const: the outcomes it can
\* have, each with the arguments of the calls of combination it made
Binomial_getProbability(self, numberOfSuccesses) ==
    IF numberOfSuccesses < 0 \/ numberOfSuccesses > self.numberOfTrials
    THEN {[error |-> NoError, value |-> Zero, combinationArgs |-> <<>>]}
    ELSE {[error |-> combinations.error,
           value |->
              IF combinations.error # NoError THEN Zero
              ELSE LET probabilityOfSuccesses ==
                           pow(self.probabilityOfSuccess, numberOfSuccesses)
                       probabilityOfFails ==
                           pow(DSub(One, self.probabilityOfSuccess),
                               self.numberOfTrials - numberOfSuccesses)
                   IN  DMul(DMul(FromInt(combinations.value),
                                 probabilityOfSuccesses),
                            probabilityOfFails),
           combinationArgs |-> <<<<self.numberOfTrials, numberOfSuccesses>>>>] :
            combinations \in combination(self.numberOfTrials, numberOfSuccesses)}

\* Binomial& setNumberOfTrials(int numberOfTrials): the field is assigned, then
\* the object is checked
setNumberOfTrials(self, numberOfTrials) ==
    LET assigned == [self EXCEPT !.numberOfTrials = numberOfTrials]
    IN  [error |-> checkDistribution(assigned), self |-> assigned]

\* Binomial& setProbabilityOfSuccess(double probabilityOfSuccess)
Binomial_setProbabilityOfSuccess(self, probabilityOfSuccess) ==
    LET assigned == [self EXCEPT !.probabilityOfSuccess = probabilityOfSuccess]
    IN  [error |-> checkDistribution(assigned), self |-> assigned]

\* double Binomial::mean() const
Binomial_mean(self) ==
    DMul(FromInt(self.numberOfTrials), self.probabilityOfSuccess)

\* double Binomial::variance() const
Binomial_variance(self) ==
    DMul(DMul(FromInt(self.numberOfTrials), self.probabilityOfSuccess),
         DSub(One, self.probabilityOfSuccess))

-----------------------------------------------------------------------------
(* models/Geometric.hpp *)

\* void Geometric::checkProbabilityOfSuccess()
Geometric_checkProbabilityOfSuccess(self) ==
    IF \/ DLess(self.probabilityOfSuccess, Zero)
       \/ DGreater(self.probabilityOfSuccess, One)
    THEN InvalidArgument
    ELSE NoError

\* Geometric(double probabilityOfSuccess)
Geometric(probabilityOfSuccess) ==
    LET self == [kind |-> "Geometric",
                 probabilityOfSuccess |-> probabilityOfSuccess]
    IN  [error |-> Geometric_checkProbabilityOfSuccess(self), self |-> self]

\* double Geometric::getProbability(int replicasMade) const
Geometric_getProbability(self, replicasMade) ==
    IF replicasMade < 0 THEN Zero
    ELSE DMul(pow(DSub(One, self.probabilityOfSuccess), replicasMade - 1),
              self.probabilityOfSuccess)

\* Geometric& setProbabilityOfSuccess(double probabilityOfSuccess)
Geometric_setProbabilityOfSuccess(self, probabilityOfSuccess) ==
    LET assigned == [self EXCEPT !.probabilityOfSuccess = probabilityOfSuccess]
    IN  [error |-> Geometric_checkProbabilityOfSuccess(assigned),
         self |-> assigned]

\* double Geometric::mean() const
Geometric_mean(self) == DDiv(One, self.probabilityOfSuccess)

\* double Geometric::variance() const
Geometric_variance(self) ==
    DDiv(DSub(One, self.probabilityOfSuccess),
         pow(self.probabilityOfSuccess, 2))

-----------------------------------------------------------------------------
(* models/DiscreteUniform.hpp *)

\* void checkInterval()
checkInterval(self) ==
    IF self.firstValue > self.lastValue THEN InvalidArgument ELSE NoError

\* DiscreteUniform(int firstValue, int lastValue)
DiscreteUniform(firstValue, lastValue) ==
    LET self == [kind |-> "DiscreteUniform", firstValue |-> firstValue,
                 lastValue |-> lastValue]
    IN  [error |-> checkInterval(self), self |-> self]

\* double DiscreteUniform::getProbability(int value) const
DiscreteUniform_getProbability(self, value) ==
    IF value < self.firstValue \/ value > self.lastValue THEN Zero
    ELSE DDiv(One,
              FromInt(IntAdd(IntSub(self.lastValue, self.firstValue), 1)))

\* DiscreteUniform& setInterval(int firstValue, int lastValue)
setInterval(self, firstValue, lastValue) ==
    LET assigned == [self EXCEPT !.firstValue = firstValue,
                                 !.lastValue = lastValue]
    IN  [error |-> checkInterval(assigned), self |-> assigned]

\* a + b, a - b and a * b of two ints leave the range of int: the behaviour of
\* the expression is undefined
AddOverflows(a, b) ==
    \/ b > 0 /\ a > IntMax - b
    \/ b < 0 /\ a < IntMin - b
SubOverflows(a, b) ==
    \/ b < 0 /\ a > IntMax + b
    \/ b > 0 /\ a < IntMin + b
MulOverflows(a, b) ==
    IF a = 0 \/ b = 0 THEN FALSE
    ELSE IF a = IntMin THEN b # 1
    ELSE IF b = IntMin THEN a # 1
    ELSE /\ Abs(a) > IntMax \div Abs(b)
         /\ ~(Sign(a) # Sign(b) /\ IntMul(a, b) = IntMin
                /\ Abs(a) - 1 = IntMax \div Abs(b))

\* the quotient by a positive divisor of the 32 bits of an int read as an
\* unsigned number: for a negative a that is 2^32 + a, the sum of IntMax + 1
\* and of the low 31 bits of a
UnsignedDiv(a, b) ==
    IF a >= 0 THEN a \div b
    ELSE LET low == a - IntMin
         IN  (IntMax \div b) + (low \div b)
                + (((IntMax % b) + 1 + (low % b)) \div b)

\* a mean that rounds its quotient down
DiscreteUniform_mean_floor(self) ==
    {FromInt(IntAdd(self.firstValue, self.lastValue) \div 2)}

\* double DiscreteUniform::mean() const: the outcomes it can have.  The
\* division is an int division.  Where the sum overflows the behaviour is
\* undefined; the builds at -O0 to -O3 all return the quotient of the wrapped
\* sum.
DiscreteUniform_mean(self) ==
    {FromInt(IntDiv(IntAdd(self.firstValue, self.lastValue), 2))}

\* double DiscreteUniform::variance() const: the outcomes it can have.  All of
\* it is int arithmetic.  Where the difference, the sum or the product
\* overflows the behaviour is undefined: the builds at -O0 and -O1 return the
\* signed quotient of the wrapped product, the builds at -O2 and -O3 its
\* unsigned quotient.
DiscreteUniform_variance(self) ==
    LET span == IntSub(self.lastValue, self.firstValue)
        product == IntMul(span, IntAdd(span, 2))
    IN  IF \/ SubOverflows(self.lastValue, self.firstValue)
           \/ AddOverflows(span, 2)
           \/ MulOverflows(span, IntAdd(span, 2))
        THEN {FromInt(IntDiv(product, 12)), FromInt(UnsignedDiv(product, 12))}
        ELSE {FromInt(IntDiv(product, 12))}

-----------------------------------------------------------------------------
(* The program that drives a distribution through its classes' interfaces.   *)
(* A constructor that throws yields no object: the program keeps what it     *)
(* had.  A setter that throws is caught by the program, which keeps using    *)
(* the object.                                                               *)

\* the record of a call on the distribution
Called(op, args, error, result) ==
    ret' = [op |-> op, args |-> args, error |-> error, result |-> result,
            before |-> dist]

\* new Binomial(numberOfTrials, probabilityOfSuccess)
ConstructBinomial(numberOfTrials, probabilityOfSuccess) ==
    LET built == Binomial(numberOfTrials, probabilityOfSuccess)
    IN  /\ dist' = IF built.error = NoError THEN built.self ELSE dist
        /\ Called("Binomial", <<numberOfTrials, probabilityOfSuccess>>,
                  built.error, 0)
        /\ UNCHANGED <<stats, twin>>

SetNumberOfTrials(numberOfTrials) ==
    /\ dist.kind = "Binomial"
    /\ LET set == setNumberOfTrials(dist, numberOfTrials)
       IN  /\ dist' = set.self
           /\ Called("Binomial::setNumberOfTrials", <<numberOfTrials>>,
                     set.error, 0)
    /\ UNCHANGED <<stats, twin>>

BinomialSetProbabilityOfSuccess(probabilityOfSuccess) ==
    /\ dist.kind = "Binomial"
    /\ LET set == Binomial_setProbabilityOfSuccess(dist, probabilityOfSuccess)
       IN  /\ dist' = set.self
           /\ Called("Binomial::setProbabilityOfSuccess",
                     <<probabilityOfSuccess>>, set.error, 0)
    /\ UNCHANGED <<stats, twin>>

BinomialGetProbability(numberOfSuccesses) ==
    /\ dist.kind = "Binomial"
    /\ \E outcome \in Binomial_getProbability(dist, numberOfSuccesses) :
          ret' = [op |-> "Binomial::getProbability",
                  args |-> <<numberOfSuccesses>>,
                  error |-> outcome.error, result |-> outcome.value,
                  combinationArgs |-> outcome.combinationArgs,
                  before |-> dist]
    /\ UNCHANGED <<stats, twin, dist>>

BinomialMean ==
    /\ dist.kind = "Binomial"
    /\ Called("Binomial::mean", <<>>, NoError, Binomial_mean(dist))
    /\ UNCHANGED <<stats, twin, dist>>

BinomialVariance ==
    /\ dist.kind = "Binomial"
    /\ Called("Binomial::variance", <<>>, NoError, Binomial_variance(dist))
    /\ UNCHANGED <<stats, twin, dist>>

\* new Geometric(probabilityOfSuccess)
ConstructGeometric(probabilityOfSuccess) ==
    LET built == Geometric(probabilityOfSuccess)
    IN  /\ dist' = IF built.error = NoError THEN built.self ELSE dist
        /\ Called("Geometric", <<probabilityOfSuccess>>, built.error, 0)
        /\ UNCHANGED <<stats, twin>>

GeometricSetProbabilityOfSuccess(probabilityOfSuccess) ==
    /\ dist.kind = "Geometric"
    /\ LET set == Geometric_setProbabilityOfSuccess(dist, probabilityOfSuccess)
       IN  /\ dist' = set.self
           /\ Called("Geometric::setProbabilityOfSuccess",
                     <<probabilityOfSuccess>>, set.error, 0)
    /\ UNCHANGED <<stats, twin>>

GeometricGetProbability(replicasMade) ==
    /\ dist.kind = "Geometric"
    /\ Called("Geometric::getProbability", <<replicasMade>>, NoError,
              Geometric_getProbability(dist, replicasMade))
    /\ UNCHANGED <<stats, twin, dist>>

GeometricMean ==
    /\ dist.kind = "Geometric"
    /\ Called("Geometric::mean", <<>>, NoError, Geometric_mean(dist))
    /\ UNCHANGED <<stats, twin, dist>>

GeometricVariance ==
    /\ dist.kind = "Geometric"
    /\ Called("Geometric::variance", <<>>, NoError, Geometric_variance(dist))
    /\ UNCHANGED <<stats, twin, dist>>

\* new DiscreteUniform(firstValue, lastValue)
ConstructDiscreteUniform(firstValue, lastValue) ==
    LET built == DiscreteUniform(firstValue, lastValue)
    IN  /\ dist' = IF built.error = NoError THEN built.self ELSE dist
        /\ Called("DiscreteUniform", <<firstValue, lastValue>>, built.error, 0)
        /\ UNCHANGED <<stats, twin>>

SetInterval(firstValue, lastValue) ==
    /\ dist.kind = "DiscreteUniform"
    /\ LET set == setInterval(dist, firstValue, lastValue)
       IN  /\ dist' = set.self
           /\ Called("DiscreteUniform::setInterval",
                     <<firstValue, lastValue>>, set.error, 0)
    /\ UNCHANGED <<stats, twin>>

DiscreteUniformGetProbability(value) ==
    /\ dist.kind = "DiscreteUniform"
    /\ Called("DiscreteUniform::getProbability", <<value>>, NoError,
              DiscreteUniform_getProbability(dist, value))
    /\ UNCHANGED <<stats, twin, dist>>

DiscreteUniformMean ==
    /\ dist.kind = "DiscreteUniform"
    /\ \E outcome \in DiscreteUniform_mean(dist) :
          Called("DiscreteUniform::mean", <<>>, NoError, outcome)
    /\ UNCHANGED <<stats, twin, dist>>

DiscreteUniformVariance ==
    /\ dist.kind = "DiscreteUniform"
    /\ \E outcome \in DiscreteUniform_variance(dist) :
          Called("DiscreteUniform::variance", <<>>, NoError, outcome)
    /\ UNCHANGED <<stats, twin, dist>>

\* no distribution has been built yet
InitDistributions ==
    /\ stats = EmptyStatistics(TRUE)
    /\ twin = EmptyStatistics(FALSE)
    /\ dist = NoObject
    /\ ret = NoCall

\* the parameters the program hands to the distributions
Params == MinParam .. MaxParam
Probabilities == {<<0 - 1, 2>>, Zero, <<1, 2>>, One, <<3, 2>>}
Points == MinParam .. MaxParam + 1

NextDistributions ==
    \/ \E n \in Params, p \in Probabilities : ConstructBinomial(n, p)
    \/ \E n \in Params : SetNumberOfTrials(n)
    \/ \E p \in Probabilities : BinomialSetProbabilityOfSuccess(p)
    \/ \E k \in Points : BinomialGetProbability(k)
    \/ BinomialMean
    \/ BinomialVariance
    \/ \E p \in Probabilities : ConstructGeometric(p)
    \/ \E p \in Probabilities : GeometricSetProbabilityOfSuccess(p)
    \/ \E n \in Points : GeometricGetProbability(n)
    \/ GeometricMean
    \/ GeometricVariance
    \/ \E first \in Params, last \in Params :
          ConstructDiscreteUniform(first, last)
    \/ \E first \in Params, last \in Params : SetInterval(first, last)
    \/ \E v \in Points : DiscreteUniformGetProbability(v)
    \/ DiscreteUniformMean
    \/ DiscreteUniformVariance

SpecDistributions == InitDistributions /\ [][NextDistributions]_vars

\* The program that drives a Binomial alone, with trial counts up to the one
\* whose factorial wraps to 0 in an int, and with the probabilities whose
\* powers stay 0, 1 or infinite
TrialCounts == {0 - 1, 0, 1, 2, 12, 13, MaxTrials - 1, MaxTrials}
SuccessCounts == TrialCounts \cup {MaxTrials + 1}
ExtremeProbabilities == {Zero, One, Inf, DNeg(Inf)}

NextBinomial ==
    \/ \E n \in TrialCounts, p \in ExtremeProbabilities : ConstructBinomial(n, p)
    \/ \E n \in TrialCounts : SetNumberOfTrials(n)
    \/ \E p \in ExtremeProbabilities : BinomialSetProbabilityOfSuccess(p)
    \/ \E k \in SuccessCounts : BinomialGetProbability(k)
    \/ BinomialMean
    \/ BinomialVariance

SpecBinomial == InitDistributions /\ [][NextBinomial]_vars

\* The program that asks a DiscreteUniform for its mean and its variance alone,
\* over intervals whose ends
\* reach the ends of int and 46340, the least span whose product with itself
\* plus 2 leaves the range of int
Endpoints == {IntMin, 0 - 3, 0, 1, 2, 46340, IntMax}

NextDiscreteUniform ==
    \/ \E first \in Endpoints, last \in Endpoints :
          ConstructDiscreteUniform(first, last)
    \/ \E first \in Endpoints, last \in Endpoints : SetInterval(first, last)
    \/ DiscreteUniformMean
    \/ DiscreteUniformVariance

SpecDiscreteUniform == InitDistributions /\ [][NextDiscreteUniform]_vars

-----------------------------------------------------------------------------
(* Claims about StatisticalTools.hpp, checked under SpecTools *)

Max(a, b) == IF a < b THEN b ELSE a

\* x! over the integers (evaluated only where it fits an int)
RECURSIVE ExactFactorial(_)
ExactFactorial(x) == IF x <= 1 THEN 1 ELSE x * ExactFactorial(x - 1)

\* x! <= IntMax, decided without computing a product beyond IntMax
RECURSIVE FactorialFits(_)
FactorialFits(x) ==
    \/ x <= 1
    \/ FactorialFits(x - 1) /\ ExactFactorial(x - 1) <= IntMax \div x

\* the number of k-element subsets of an n-element set, 0 <= k <= n: such a
\* subset either leaves out the last element or holds it
RECURSIVE SubsetCount(_, _)
SubsetCount(n, k) ==
    IF k = 0 \/ k = n THEN 1
    ELSE SubsetCount(n - 1, k) + SubsetCount(n - 1, k - 1)

\* C7: factorial(x) throws the invalid-argument error exactly when x < 0;
\* combination(n, k) throws it whenever n, k or n - k is negative, and never
\* throws it when 0 <= k <= n.
C7_InvalidArgumentExactlyOnNegatives ==
    /\ ret.op = "factorial" =>
          (ret.error = InvalidArgument <=> ret.args[1] < 0)
    /\ ret.op = "combination" =>
          LET n == ret.args[1]
              k == ret.args[2]
          IN  /\ (n < 0 \/ k < 0 \/ n - k < 0) => ret.error = InvalidArgument
              /\ (0 <= k /\ k <= n) => ret.error # InvalidArgument

\* combination(2, 3) has thrown: k > n makes n - k negative
C7_Witness ==
    /\ ret.op = "combination"
    /\ ret.args = <<2, 3>>
    /\ ret.error = InvalidArgument

-----------------------------------------------------------------------------
(* Claims about Statistics.hpp, checked under SpecStatistics *)

RECURSIVE SeqSum(_)
SeqSum(seq) == IF seq = <<>> THEN 0 ELSE Head(seq) + SeqSum(Tail(seq))

\* the arithmetic mean of a sequence of integers, 0 for the empty one
MeanOf(seq) == IF seq = <<>> THEN Zero ELSE Norm(SeqSum(seq), Len(seq))

Count(seq, v) == Cardinality({i \in 1 .. Len(seq) : seq[i] = v})
SameMultiset(a, b) ==
    /\ Len(a) = Len(b)
    /\ \A i \in 1 .. Len(a) : Count(a, a[i]) = Count(b, a[i])
IsSorted(seq) == \A i \in 1 .. Len(seq) - 1 : seq[i] <= seq[i + 1]

\* C3: on an empty sample median, mode and amplitude throw the empty-data error
\* and calculateSum, mean, variance, standardDeviation and
\* coefficientOfVariation return 0 without error; on a non-empty sample none of
\* the eight throws the empty-data error.
C3_EmptySample ==
    /\ ret.op \in {"median", "mode", "amplitude"} =>
          (ret.error = EmptyData <=> ret.before.values = <<>>)
    /\ ret.op \in {"calculateSum", "mean", "variance"} =>
          /\ ret.error = NoError
          /\ ret.before.values = <<>> => ret.result = Zero
    /\ ret.op \in {"standardDeviation", "coefficientOfVariation"} =>
          /\ ret.error = NoError
          /\ ret.before.values = <<>> => ret.result = SurdZero

\* median() has thrown on an empty sample that an earlier setValues left
C3_Witness ==
    /\ ret.op = "median"
    /\ ret.before.values = <<>>
    /\ ret.error = EmptyData
    /\ stats.values = <<>>

\* C4: after setValues(new) the stored sample is new in the order given, its
\* size is the length of new, its mean is the mean of new alone, and the
\* population flag is what it was.
C4_SetValuesReplaces ==
    ret.op = "setValues" =>
       /\ stats.values = ret.args[1]
       /\ size(stats) = Len(ret.args[1])
       /\ mean(stats) = MeanOf(ret.args[1])
       /\ stats.populationData = ret.before.populationData

\* setValues({1, -1, 0}) has replaced the sample of a sample-data object
C4_Witness ==
    /\ ret.op = "setValues"
    /\ ret.args[1] = <<1, 0 - 1, 0>>
    /\ stats.values = <<1, 0 - 1, 0>>
    /\ mean(stats) = Zero
    /\ ~stats.populationData

FlagBlindOps ==
    {"calculateSum", "mean", "median", "mode", "amplitude"}

\* C5 as stated: two objects with the same sample and opposite flags, handed
\* the same calls, keep identical samples and get identical results from
\* calculateSum, mean, median, mode, amplitude, standardDeviation and
\* coefficientOfVariation.
C5_OnlyVarianceSeesFlag ==
    /\ stats.values = twin.values
    /\ ret.op \in FlagBlindOps \cup
                  {"standardDeviation", "coefficientOfVariation"} =>
          ret.error = ret.twinError /\ ret.result = ret.twinResult

\* C5 as amended: the two objects keep identical samples and get identical
\* results from calculateSum, mean, median, mode and amplitude; the results of
\* variance, and of standardDeviation and coefficientOfVariation, which are
\* computed from it, may differ.
C5_FlagBlindQueries ==
    /\ stats.values = twin.values
    /\ stats.populationData # twin.populationData
    /\ ret.op \in FlagBlindOps =>
          ret.error = ret.twinError /\ ret.result = ret.twinResult

\* amplitude() has returned 2 to both objects, of opposite flags
C5_Witness ==
    /\ ret.op = "amplitude"
    /\ stats.values = <<0, 1, 0 - 1>>
    /\ twin.values = <<0, 1, 0 - 1>>
    /\ stats.populationData # twin.populationData
    /\ ret.result = 2
    /\ ret.twinResult = 2

RECURSIVE ScaledSquares(_, _, _)
ScaledSquares(seq, n, s) ==
    IF seq = <<>> THEN 0
    ELSE (n * Head(seq) - s) * (n * Head(seq) - s)
            + ScaledSquares(Tail(seq), n, s)

\* the sum of the squared deviations from the mean, over a divisor
VarianceOf(seq, divisor) ==
    Norm(ScaledSquares(seq, Len(seq), SeqSum(seq)),
         Len(seq) * Len(seq) * divisor)

\* C11: on a non-empty sample of N values variance() returns, without error,
\* the sum of the squared deviations from the mean divided by N when the flag
\* is true and by N - 1 when it is false; for N = 1 with the flag false the
\* division by 0 is carried out: the result is the NaN of 0.0 / 0, not 0.
C11_VarianceDivisor ==
    ret.op = "variance" /\ ret.before.values # <<>> =>
       LET N == Len(ret.before.values)
           divisor(populationData) == IF populationData THEN N ELSE N - 1
       IN  /\ ret.error = NoError
           /\ ret.twinError = NoError
           /\ ret.result =
                 VarianceOf(ret.before.values,
                            divisor(ret.before.populationData))
           /\ ret.twinResult =
                 VarianceOf(twin.values, divisor(twin.populationData))
           /\ N = 1 /\ ~ret.before.populationData =>
                 ret.result = NaN /\ ret.result # Zero

\* variance() of the sample data {1} has returned NaN, and 0 to the object
\* that holds {1} as population data
C11_Witness ==
    /\ ret.op = "variance"
    /\ ret.before.values = <<1>>
    /\ ~ret.before.populationData
    /\ ret.error = NoError
    /\ ret.result = NaN
    /\ ret.twinResult = Zero

\* variance() of the sample data {1, -1, 1} has divided 8/3 by 2
C11_WitnessSample ==
    /\ ret.op = "variance"
    /\ ret.before.values = <<1, 0 - 1, 1>>
    /\ ~ret.before.populationData
    /\ ret.result = <<4, 3>>
    /\ ret.twinResult = <<8, 9>>
-----------------------------------------------------------------------------
(* Claims about the distributions, checked under SpecDistributions and       *)
(* SpecBinomial                                                              *)

Setters ==
    {"Binomial::setNumberOfTrials", "Binomial::setProbabilityOfSuccess",
     "Geometric::setProbabilityOfSuccess", "DiscreteUniform::setInterval"}

\* 0 <= p <= 1 over the reals
InUnitInterval(p) ==
    ~IsNaN(p) /\ ~IsInfinite(p) /\ ~DLess(p, Zero) /\ ~DGreater(p, One)

\* C1: whenever a call of Binomial.setNumberOfTrials,
\* Binomial.setProbabilityOfSuccess, Geometric.setProbabilityOfSuccess or
\* DiscreteUniform.setInterval throws the invalid-argument error, the object
\* holds after the call exactly the parameters it held before it.
C1_FailedSetterKeepsParameters ==
    ret.op \in Setters /\ ret.error = InvalidArgument => dist = ret.before

\* C2: every distribution object the program can query satisfies its domain
\* constraints: a Binomial has numberOfTrials >= 0 and
\* 0 <= probabilityOfSuccess <= 1, a Geometric has
\* 0 <= probabilityOfSuccess <= 1, a DiscreteUniform has
\* firstValue <= lastValue.
C2_ObjectsStayValid ==
    /\ dist.kind = "Binomial" =>
          dist.numberOfTrials >= 0 /\ InUnitInterval(dist.probabilityOfSuccess)
    /\ dist.kind = "Geometric" => InUnitInterval(dist.probabilityOfSuccess)
    /\ dist.kind = "DiscreteUniform" => dist.firstValue <= dist.lastValue

\* C9 as stated: Binomial.getProbability(k) never raises an error; it returns
\* 0 when k < 0 or k > numberOfTrials and otherwise calls
\* combination(numberOfTrials, k) with 0 <= k <= numberOfTrials only.
C9_GetProbabilityNeverFails ==
    ret.op = "Binomial::getProbability" =>
       LET n == ret.before.numberOfTrials
           k == ret.args[1]
       IN  /\ ret.error = NoError
           /\ (k < 0 \/ k > n) =>
                 ret.result = Zero /\ ret.combinationArgs = <<>>
           /\ \A i \in 1 .. Len(ret.combinationArgs) :
                 /\ ret.combinationArgs[i][1] = n
                 /\ 0 <= ret.combinationArgs[i][2]
                 /\ ret.combinationArgs[i][2] <= n

\* C9 as amended: Binomial.getProbability(k) never throws the invalid-argument
\* error: it returns 0 without error when k < 0 or k > numberOfTrials and
\* otherwise calls combination(numberOfTrials, k) with
\* 0 <= k <= numberOfTrials only.  It raises no error at all while
\* numberOfTrials! fits an int (numberOfTrials <= 12); the only error it can
\* raise beyond that is the int division by zero of combination, on a
\* denominator that wrapped to 0.
C9_GetProbabilityNeverThrowsInvalidArgument ==
    ret.op = "Binomial::getProbability" =>
       LET n == ret.before.numberOfTrials
           k == ret.args[1]
       IN  /\ ret.error # InvalidArgument
           /\ (k < 0 \/ k > n) =>
                 /\ ret.error = NoError
                 /\ ret.result = Zero
                 /\ ret.combinationArgs = <<>>
           /\ (0 <= k /\ k <= n) => ret.combinationArgs = <<<<n, k>>>>
           /\ FactorialFits(n) => ret.error = NoError
           /\ ret.error # NoError =>
                 /\ ret.error = DivideByZero
                 /\ IntMul(factorial(n - k).value, factorial(k).value) = 0

\* getProbability(13) on a Binomial of 13 trials has called combination(13, 13)
\* and returned without error
C9_Witness ==
    /\ ret.op = "Binomial::getProbability"
    /\ ret.before.numberOfTrials = 13
    /\ ret.before.probabilityOfSuccess = One
    /\ ret.args = <<13>>
    /\ ret.combinationArgs = <<<<13, 13>>>>
    /\ ret.error = NoError
    /\ ret.result = One

\* C10: the probabilityOfSuccess of a Geometric object is always in (0, 1], so
\* mean() and variance() are never evaluated with probabilityOfSuccess = 0.
C10_GeometricProbabilityPositive ==
    /\ dist.kind = "Geometric" =>
          /\ InUnitInterval(dist.probabilityOfSuccess)
          /\ dist.probabilityOfSuccess # Zero
    /\ ret.op \in {"Geometric::mean", "Geometric::variance"} =>
          ret.before.probabilityOfSuccess # Zero

\* the quotient of an integer by a positive one, rounded toward zero
Truncated(n, d) ==
    IF n < 0 /\ n % d # 0 THEN (n \div d) + 1 ELSE n \div d

\* lastValue - firstValue <= k, for firstValue <= lastValue
SpanAtMost(self, k) ==
    self.firstValue > IntMax - k \/ self.lastValue <= self.firstValue + k

\* firstValue + lastValue, and (lastValue - firstValue) *
\* (lastValue - firstValue + 2), are values of int
SumFits(self) ==
    /\ self.firstValue > 0 => self.lastValue <= IntMax - self.firstValue
    /\ self.firstValue < 0 => self.lastValue >= IntMin - self.firstValue
ProductFits(self) ==
    \/ self.lastValue = self.firstValue
    \/ /\ SpanAtMost(self, IntMax - 2)
       /\ (self.lastValue - self.firstValue) + 2
             <= IntMax \div (self.lastValue - self.firstValue)

\* (firstValue + lastValue) / 2 over the integers, rounded toward zero, from
\* the halves of the two ends
ExactMean(self) ==
    LET halves == (self.firstValue \div 2) + (self.lastValue \div 2)
        rest == (self.firstValue % 2) + (self.lastValue % 2)
    IN  IF rest = 2 THEN halves + 1
        ELSE IF rest = 1 /\ halves < 0 THEN halves + 1
        ELSE halves

\* span * (span + 2) / 12 over the integers, rounded down, from the quotient
\* and the remainder of span by 12; for span < 2^16
ExactVariance(span) ==
    LET q == span \div 12
        r == span % 12
    IN  12 * q * q + 2 * q * (r + 1) + ((r * (r + 2)) \div 12)

C12_WitnessVariance ==
    /\ ret.op = "DiscreteUniform::variance"
    /\ ret.before.firstValue = 0 - 3
    /\ ret.before.lastValue = 2
    /\ ret.result = FromInt(2)
-----------------------------------------------------------------------------
(* Claims about the reordering of median(), checked under SpecMedian *)

OrderBlindOps == {"size", "calculateSum", "mean", "amplitude", "median"}
ConstOps ==
    {"size", "calculateSum", "mean", "mode", "amplitude", "variance",
     "standardDeviation", "coefficientOfVariation"}

\* C13 as stated: median() is the only query that changes the stored sample,
\* which it only reorders; size, calculateSum, mean, amplitude, variance and
\* median return the same result on the object that median() has reordered
\* any number of times as on the object that holds the sample as given.
C13_MedianInvisible ==
    /\ SameMultiset(stats.values, twin.values)
    /\ stats.populationData = twin.populationData
    /\ ret.op \in ConstOps => stats = ret.before
    /\ ret.op \in OrderBlindOps \cup {"variance"} =>
          ret.error = ret.twinError /\ ret.result = ret.twinResult

\* C13 as amended: median() is the only query that changes the stored sample,
\* which it only reorders; size, calculateSum, mean, amplitude and median
\* return the same result on the reordered object as on the object that holds
\* the sample as given.  The two results of variance round the same real
\* number, the sums of its squared deviations being added in two orders.
C13_MedianInvisibleButToRounding ==
    /\ SameMultiset(stats.values, twin.values)
    /\ stats.populationData = twin.populationData
    /\ ret.op \in ConstOps => stats = ret.before
    /\ ret.op \in OrderBlindOps =>
          ret.error = ret.twinError /\ ret.result = ret.twinResult
    /\ ret.op = "variance" =>
          /\ ret.error = ret.twinError
          /\ variance(stats) = variance(twin)

\* mean() has returned the same -1/3 on {-2, 0, 1}, which median() left of
\* {-2, 1, 0}, as on {-2, 1, 0}
C13_Witness ==
    /\ ret.op = "mean"
    /\ stats.values = <<0 - 2, 0, 1>>
    /\ twin.values = <<0 - 2, 1, 0>>
    /\ ret.result = ret.twinResult
    /\ ret.result = FDivInt(FFromInt(0 - 1), 3)

\* variance() has returned two doubles for the population {-2, 0, 1}: 14/9
\* rounded up after median(), rounded down on the order {-2, 1, 0}
C13_WitnessVariance ==
    /\ ret.op = "variance"
    /\ stats.values = <<0 - 2, 0, 1>>
    /\ twin.values = <<0 - 2, 1, 0>>
    /\ stats.populationData
    /\ ret.result # ret.twinResult
    /\ ret.result.exp = ret.twinResult.exp
    /\ NatSub(ret.result.man, ret.twinResult.man) = <<1>>

=============================================================================
